---- MODULE Spec2Model ----
(***************************************************************************)
(* Recipe API (TestProject): the recipe, tag and ingredient stores of      *)
(* core/models.py, the relation reconciler of recipe/serializers.py and    *)
(* the owner-scoped views of recipe/views.py, as a state machine that      *)
(* handles one HTTP request per step.                                      *)
(*                                                                         *)
(* A request is a record [op, user, pk, method, data, query_params]; data  *)
(* and query_params are dictionaries, modelled as records whose DOMAIN is  *)
(* the set of keys the client sent.  Strings that the code parses (query   *)
(* parameters) are sequences of one-character strings.                     *)
(***************************************************************************)
EXTENDS Integers, Sequences, FiniteSets, TLC

(***************************************************************************)
(* Bounds of the model.                                                    *)
(***************************************************************************)
\* Upper bound on the rows ever inserted (all three tables together), under
\* Spec and under SpecQuery.
MaxRows == 3
MaxQueryRows == 4
MaxImageRows == 3
MaxConcurrentRows == 3
\* Upper bound on the rows ever inserted into one table.
MaxPerTable == 2
\* Upper bounds on the user rows and on the length of an email; the calls
\* that find a user already stored take emails one character shorter.
MaxUsers == 2
MaxEmailLen == 4

Users == {"u1", "u2"}
Anonymous == "anonymous"

Titles == {"t1", "t2"}
TagNames == {"a", "b"}
IngredientNames == {"a"}
Quantities == {1, 2}
\* A blank name: rejected by the serializers' CharField.
Blank == ""

(***************************************************************************)
(* HTTP status codes.                                                      *)
(***************************************************************************)
HTTP_200_OK == 200
HTTP_201_CREATED == 201
HTTP_204_NO_CONTENT == 204
HTTP_400_BAD_REQUEST == 400
HTTP_401_UNAUTHORIZED == 401
HTTP_404_NOT_FOUND == 404
\* A method the route binds to no handler.
HTTP_405_METHOD_NOT_ALLOWED == 405
\* An exception no handler catches (ValueError, MultipleObjectsReturned).
HTTP_500_SERVER_ERROR == 500

(***************************************************************************)
(* Python helpers: str.split, int.                                         *)
(***************************************************************************)
Digits == <<"0", "1", "2", "3", "4", "5", "6", "7", "8", "9">>

IsDigit(c) == \E i \in 1..Len(Digits) : Digits[i] = c

DigitValue(c) == (CHOOSE i \in 1..Len(Digits) : Digits[i] = c) - 1

\* int(s) succeeds on a non-empty string of decimal digits.
IsIntLiteral(s) == Len(s) > 0 /\ \A i \in 1..Len(s) : IsDigit(s[i])

RECURSIVE int(_)
int(s) ==
    IF Len(s) = 0 THEN 0
    ELSE 10 * int(SubSeq(s, 1, Len(s) - 1)) + DigitValue(s[Len(s)])

RECURSIVE split(_, _)
split(s, sep) ==
    IF \A i \in 1..Len(s) : s[i] # sep THEN <<s>>
    ELSE LET k == CHOOSE i \in 1..Len(s) :
                      s[i] = sep /\ \A j \in 1..(i - 1) : s[j] # sep
         IN  <<SubSeq(s, 1, k - 1)>> \o split(SubSeq(s, k + 1, Len(s)), sep)

\* RecipeViewSet._parameters_to_list: [ok, value]; ok = FALSE is the
\* ValueError that int raises on a piece that is no integer literal.
parameters_to_list(parametes) ==
    LET pieces == split(parametes, ",") IN
    IF \A i \in 1..Len(pieces) : IsIntLiteral(pieces[i])
    THEN [ok |-> TRUE, value |-> [i \in 1..Len(pieces) |-> int(pieces[i])]]
    ELSE [ok |-> FALSE, value |-> <<>>]

Range(s) == {s[i] : i \in 1..Len(s)}

(***************************************************************************)
(* The database: the three tables, the two many-to-many link tables and    *)
(* the autoincrement counters.                                             *)
(***************************************************************************)
VARIABLES
    recipes,             \* rows [id, user, title, image]
    tags,                \* rows [id, user, name]
    ingredients,         \* rows [id, user, name, quantity]
    recipe_tags,         \* links <<recipe id, tag id>>
    recipe_ingredients,  \* links <<recipe id, ingredient id>>
    sequences,           \* next id of each table
    request,             \* the request being answered, NoRequest when idle
    response,            \* its response
    before,              \* the database when the request arrived
    user_table,          \* rows of core.User
    call,                \* the last call of the user manager, NoCall if none
    workers              \* the server's workers: the request each one runs

store == <<recipes, tags, ingredients, recipe_tags, recipe_ingredients, sequences>>
vars == <<recipes, tags, ingredients, recipe_tags, recipe_ingredients, sequences,
          request, response, before, user_table, call, workers>>

\* The database as one value, so that the handlers can thread it.
DB == [recipes |-> recipes, tags |-> tags, ingredients |-> ingredients,
       recipe_tags |-> recipe_tags, recipe_ingredients |-> recipe_ingredients,
       sequences |-> sequences]

\* image = NULL
NoImage == [dir |-> "", name |-> "", ext |-> ""]
NoRequest == [op |-> "none"]
NoResponse == [status |-> 0, data |-> <<>>]
NoCall == [op |-> "none"]
Workers == {"w1", "w2"}
Idle == [pc |-> "idle"]

\* The rows ever inserted, all three tables together.
RowsInserted(seq) == (seq.recipe - 1) + (seq.tag - 1) + (seq.ingredient - 1)

\* The inserts of a step fit the bounds of the model: at most max_rows rows
\* in all, at most MaxPerTable in one table.
WithinBounds(max_rows) ==
    /\ RowsInserted(sequences') <= max_rows
    /\ sequences'.recipe - 1 <= MaxPerTable
    /\ sequences'.tag - 1 <= MaxPerTable
    /\ sequences'.ingredient - 1 <= MaxPerTable

\* Alphabetical order of the names (the database's collation).
NameOrder(name) ==
    CASE name = "a" -> 1
      [] name = "b" -> 2
      [] OTHER -> 0

\* order_by: the sequences of all the rows in ascending order of key; rows
\* with equal keys come in an order the database chooses.
order_by(rows, key) ==
    LET n == Cardinality(rows) IN
    {s \in [1..n -> rows] :
        /\ \A i, j \in 1..n : i # j => s[i] # s[j]
        /\ \A i, j \in 1..n : i < j => key[s[i]] <= key[s[j]]}

\* Mutant of distinct: the query has no distinct().
distinct_left_out(rows) == rows

\* distinct() over the selected columns of the model's table (the join
\* columns are not selected): one query row per table row.
distinct(rows) == {[row EXCEPT !.joined = <<>>] : row \in rows}

\* The rows of a table as query rows, before any join.
all(table) == {[id |-> o.id, joined |-> <<>>] : o \in table}

\* filter(<relation>__id__in=ids): an inner join with the link table
\* (links <<recipe id, related id>>), one query row per matching link.
filter_relation_id_in(rows, links, ids) ==
    {[id |-> p[1].id, joined |-> Append(p[1].joined, p[2][2])] :
        p \in {q \in rows \X links : q[2][1] = q[1].id /\ q[2][2] \in ids}}

\* Mutant of filter_recipe_isnull_False: the assigned_only filter is left out.
filter_recipe_isnull_False_left_out(rows, links) == rows

\* filter(recipe__isnull=False): an inner join of a tag or ingredient table
\* with its link table, one query row per link of the row.
filter_recipe_isnull_False(rows, links) ==
    {[id |-> p[1].id, joined |-> Append(p[1].joined, p[2][1])] :
        p \in {q \in rows \X links : q[2][2] = q[1].id}}

\* Mutant of filter_user: the owner filter is left out.
filter_user_left_out(rows, table, user) == rows

\* filter(user=user)
filter_user(rows, table, user) ==
    {row \in rows : \E o \in table : o.id = row.id /\ o.user = user}

Ids(s) == [i \in 1..Len(s) |-> s[i].id]

(***************************************************************************)
(* recipe/views.py: the querysets.                                         *)
(***************************************************************************)
\* query_params.get(key): the empty string stands for None (both are falsy).
query_param(query_params, key) ==
    IF key \in DOMAIN query_params THEN query_params[key] ELSE <<>>

\* RecipeViewSet.get_queryset, before order_by: [ok, rows]; ok = FALSE is
\* the ValueError of _parameters_to_list.
RecipeViewSet_get_queryset(d, user, query_params) ==
    LET tags_p == query_param(query_params, "tags")
        ingredients_p == query_param(query_params, "ingredients")
        tag_ids == parameters_to_list(tags_p)
        ingredient_ids == parameters_to_list(ingredients_p)
        q0 == all(d.recipes)
        q1 == IF tags_p # <<>>
              THEN filter_relation_id_in(q0, d.recipe_tags, Range(tag_ids.value))
              ELSE q0
        q2 == IF ingredients_p # <<>>
              THEN filter_relation_id_in(q1, d.recipe_ingredients,
                                         Range(ingredient_ids.value))
              ELSE q1
    IN  IF tags_p # <<>> /\ ~tag_ids.ok THEN [ok |-> FALSE, rows |-> {}]
        ELSE IF ingredients_p # <<>> /\ ~ingredient_ids.ok
             THEN [ok |-> FALSE, rows |-> {}]
        ELSE [ok |-> TRUE, rows |-> distinct(filter_user(q2, d.recipes, user))]

\* order_by('-id')
RecipeOrder(row) == 0 - row.id

\* BaseRecipeAttrViewSet.get_queryset over a table (Tag or Ingredient) and
\* its link table, before order_by: [ok, rows]; ok = FALSE is the
\* ValueError of int on assigned_only.
BaseRecipeAttrViewSet_get_queryset(table, links, user, query_params) ==
    LET given == "assigned_only" \in DOMAIN query_params
        assigned_only == given /\ int(query_params.assigned_only) # 0
        q0 == all(table)
        q1 == IF assigned_only THEN filter_recipe_isnull_False(q0, links) ELSE q0
    IN  IF given /\ ~IsIntLiteral(query_params.assigned_only)
        THEN [ok |-> FALSE, rows |-> {}]
        ELSE [ok |-> TRUE, rows |-> distinct(filter_user(q1, table, user))]

Row(table, id) == CHOOSE o \in table : o.id = id

\* GenericAPIView.get_object over a queryset: [found, id].
get_object(queryset, pk) ==
    [found |-> \E row \in queryset.rows : row.id = pk, id |-> pk]

(***************************************************************************)
(* recipe/serializers.py                                                   *)
(***************************************************************************)
\* Mutant of validated: every key the client sends is kept.
validated_every_key(data, fields) == data

\* The keys of data that are writable fields of the serializer: any other
\* key the client sends ('user', 'id') is dropped by validation.
validated(data, fields) == [k \in (DOMAIN data) \cap fields |-> data[k]]

\* A CharField value: required unless the update is partial, never blank.
CharFieldValid(data, key, partial) ==
    IF key \in DOMAIN data THEN data[key] # Blank ELSE partial

\* TagSerializer.is_valid
TagSerializer_is_valid(data, partial) == CharFieldValid(data, "name", partial)

\* IngredientSerializer.is_valid (every quantity of the model is a number)
IngredientSerializer_is_valid(data, partial) ==
    /\ CharFieldValid(data, "name", partial)
    /\ "quantity" \in DOMAIN data \/ partial

\* RecipeDetailSerializer.is_valid: the scalar fields and every nested
\* descriptor of the two relation fields (required=False).
RecipeDetailSerializer_is_valid(data, partial) ==
    /\ CharFieldValid(data, "title", partial)
    /\ "tags" \in DOMAIN data =>
           \A i \in 1..Len(data.tags) : TagSerializer_is_valid(data.tags[i], partial)
    /\ "ingredients" \in DOMAIN data =>
           \A i \in 1..Len(data.ingredients) :
               IngredientSerializer_is_valid(data.ingredients[i], partial)

\* Mutant of Tag_get_or_create: Tag.objects.create(user=user, **tag), which
\* inserts a row whatever is stored.
Tag_get_or_create_create(d, user, tag) ==
    LET new == [id |-> d.sequences.tag, user |-> user, name |-> tag.name]
    IN  [ok |-> TRUE,
         db |-> [d EXCEPT !.tags = @ \cup {new}, !.sequences.tag = @ + 1],
         id |-> new.id, created |-> TRUE]

\* Mutant of Tag_get_or_create: get_or_create(**tag), which matches the
\* rows of every user.
Tag_get_or_create_any_user(d, user, tag) ==
    LET matches == {t \in d.tags : t.name = tag.name}
        new == [id |-> d.sequences.tag, user |-> user, name |-> tag.name]
    IN  IF Cardinality(matches) > 1
        THEN [ok |-> FALSE, db |-> d, id |-> 0, created |-> FALSE]
        ELSE IF matches # {}
        THEN [ok |-> TRUE, db |-> d, id |-> (CHOOSE t \in matches : TRUE).id,
              created |-> FALSE]
        ELSE [ok |-> TRUE,
              db |-> [d EXCEPT !.tags = @ \cup {new}, !.sequences.tag = @ + 1],
              id |-> new.id, created |-> TRUE]

\* Tag.objects.get_or_create(user=user, **tag): [ok, db, id, created];
\* ok = FALSE is MultipleObjectsReturned, raised by get when several rows
\* match.
Tag_get_or_create(d, user, tag) ==
    LET matches == {t \in d.tags : t.user = user /\ t.name = tag.name}
        new == [id |-> d.sequences.tag, user |-> user, name |-> tag.name]
    IN  IF Cardinality(matches) > 1
        THEN [ok |-> FALSE, db |-> d, id |-> 0, created |-> FALSE]
        ELSE IF matches # {}
        THEN [ok |-> TRUE, db |-> d, id |-> (CHOOSE t \in matches : TRUE).id,
              created |-> FALSE]
        ELSE [ok |-> TRUE,
              db |-> [d EXCEPT !.tags = @ \cup {new}, !.sequences.tag = @ + 1],
              id |-> new.id, created |-> TRUE]

\* Ingredient.objects.get_or_create(user=user, **ingredient)
Ingredient_get_or_create(d, user, ingredient) ==
    LET matches == {i \in d.ingredients :
                        /\ i.user = user
                        /\ i.name = ingredient.name
                        /\ i.quantity = ingredient.quantity}
        new == [id |-> d.sequences.ingredient, user |-> user,
                name |-> ingredient.name, quantity |-> ingredient.quantity]
    IN  IF Cardinality(matches) > 1
        THEN [ok |-> FALSE, db |-> d, id |-> 0, created |-> FALSE]
        ELSE IF matches # {}
        THEN [ok |-> TRUE, db |-> d, id |-> (CHOOSE i \in matches : TRUE).id,
              created |-> FALSE]
        ELSE [ok |-> TRUE,
              db |-> [d EXCEPT !.ingredients = @ \cup {new},
                               !.sequences.ingredient = @ + 1],
              id |-> new.id, created |-> TRUE]

\* RecipeDetailSerializer._add_tags: [ok, db]; every statement is committed
\* as it runs, so an exception leaves what the earlier ones wrote.
RECURSIVE add_tags(_, _, _, _)
add_tags(d, user, tag_list, recipe) ==
    IF tag_list = <<>> THEN [ok |-> TRUE, db |-> d]
    ELSE LET got == Tag_get_or_create(d, user, Head(tag_list)) IN
         IF ~got.ok THEN [ok |-> FALSE, db |-> got.db]
         ELSE add_tags([got.db EXCEPT !.recipe_tags = @ \cup {<<recipe, got.id>>}],
                       user, Tail(tag_list), recipe)

\* RecipeDetailSerializer._add_ingredients
RECURSIVE add_ingredients(_, _, _, _)
add_ingredients(d, user, ingredient_list, recipe) ==
    IF ingredient_list = <<>> THEN [ok |-> TRUE, db |-> d]
    ELSE LET got == Ingredient_get_or_create(d, user, Head(ingredient_list)) IN
         IF ~got.ok THEN [ok |-> FALSE, db |-> got.db]
         ELSE add_ingredients(
                  [got.db EXCEPT !.recipe_ingredients = @ \cup {<<recipe, got.id>>}],
                  user, Tail(ingredient_list), recipe)

\* validated_data.pop(key, default)
pop(validated_data, key, default) ==
    IF key \in DOMAIN validated_data THEN validated_data[key] ELSE default

\* RecipeDetailSerializer.create, called by perform_create with
\* user=request.user: [ok, db, id].
RecipeDetailSerializer_create(d, user, validated_data) ==
    LET tag_list == pop(validated_data, "tags", <<>>)
        ingredient_list == pop(validated_data, "ingredients", <<>>)
        recipe == [id |-> d.sequences.recipe, user |-> user,
                   title |-> validated_data.title, image |-> NoImage]
        d1 == [d EXCEPT !.recipes = @ \cup {recipe}, !.sequences.recipe = @ + 1]
        d2 == add_tags(d1, user, tag_list, recipe.id)
        d3 == add_ingredients(d2.db, user, ingredient_list, recipe.id)
    IN  IF ~d2.ok THEN [ok |-> FALSE, db |-> d2.db, id |-> recipe.id]
        ELSE [ok |-> d3.ok, db |-> d3.db, id |-> recipe.id]

\* Mutant of tags_clear: instance.tags.all().delete(), which deletes the
\* linked tags with their links.
tags_clear_delete(d, recipe) ==
    LET linked == {l[2] : l \in {m \in d.recipe_tags : m[1] = recipe}}
    IN  [d EXCEPT !.tags = {t \in @ : t.id \notin linked},
                  !.recipe_tags = {l \in @ : l[2] \notin linked}]

\* instance.tags.clear()
tags_clear(d, recipe) ==
    [d EXCEPT !.recipe_tags = {l \in @ : l[1] # recipe}]

\* instance.ingredients.clear()
ingredients_clear(d, recipe) ==
    [d EXCEPT !.recipe_ingredients = {l \in @ : l[1] # recipe}]

\* setattr for every remaining key, then instance.save()
save_fields(d, instance, validated_data) ==
    [d EXCEPT !.recipes =
        {IF r.id = instance
         THEN [k \in DOMAIN r |->
                  IF k \in DOMAIN validated_data /\ k \notin {"tags", "ingredients"}
                  THEN validated_data[k] ELSE r[k]]
         ELSE r : r \in @}]

\* Mutant of RecipeDetailSerializer_update: the relation fields default to
\* the empty list, as they do in create, so an absent field clears the links.
RecipeDetailSerializer_update_default_empty(d, user, instance, validated_data) ==
    LET d1 == add_tags(tags_clear(d, instance), user,
                       pop(validated_data, "tags", <<>>), instance)
        d2 == add_ingredients(ingredients_clear(d1.db, instance), user,
                              pop(validated_data, "ingredients", <<>>), instance)
    IN  IF ~d1.ok THEN [ok |-> FALSE, db |-> d1.db]
        ELSE IF ~d2.ok THEN [ok |-> FALSE, db |-> d2.db]
        ELSE [ok |-> TRUE, db |-> save_fields(d2.db, instance, validated_data)]

\* RecipeDetailSerializer.update on the recipe with id instance: [ok, db].
RecipeDetailSerializer_update(d, user, instance, validated_data) ==
    LET d1 == IF "tags" \in DOMAIN validated_data
              THEN add_tags(tags_clear(d, instance), user, validated_data.tags,
                            instance)
              ELSE [ok |-> TRUE, db |-> d]
        d2 == IF "ingredients" \in DOMAIN validated_data
              THEN add_ingredients(ingredients_clear(d1.db, instance), user,
                                   validated_data.ingredients, instance)
              ELSE [ok |-> TRUE, db |-> d1.db]
    IN  IF ~d1.ok THEN [ok |-> FALSE, db |-> d1.db]
        ELSE IF ~d2.ok THEN [ok |-> FALSE, db |-> d2.db]
        ELSE [ok |-> TRUE, db |-> save_fields(d2.db, instance, validated_data)]

(***************************************************************************)
(* The requests the clients send (the inputs of the model).                *)
(***************************************************************************)
NoData == <<>>
Merge(f, g) ==
    [k \in (DOMAIN f) \cup (DOMAIN g) |-> IF k \in DOMAIN g THEN g[k] ELSE f[k]]

Principals == Users \cup {Anonymous}
\* Primary keys a client may name: every id the bounds allow.
Pks == 1..MaxPerTable

tag(name) == [name |-> name]
ingredient(name, quantity) == [name |-> name, quantity |-> quantity]

Req(op, user, pk, method, data, query_params) ==
    [op |-> op, user |-> user, pk |-> pk, method |-> method, data |-> data,
     query_params |-> query_params]

\* The requests of a set of users with the payloads Data(u) of each.
Posts(op, users, Data) ==
    UNION {{Req(op, u, 0, "POST", d, NoData) : d \in Data[u]} : u \in users}
Updates(op, method, users, Data) ==
    UNION {{Req(op, u, pk, method, d, NoData) : pk \in Pks, d \in Data[u]} : u \in users}
Deletes(op, users) ==
    {Req(op, u, pk, "DELETE", NoData, NoData) : u \in users, pk \in Pks}
Gets(op, users, Params) ==
    {Req(op, u, 0, "GET", NoData, q) : u \in users, q \in Params}

\* The first user sends every payload of the model; the second user, whose
\* rows are the other user's rows of the first, sends a few.
FirstUser == "u1"

(***************************************************************************)
(* The requests of Spec: the payloads of create, update and delete.        *)
(***************************************************************************)
\* Values of the 'tags' field of a recipe payload.
TagPayloads ==
    {<<>>, <<tag("a")>>, <<tag("b")>>, <<tag("a"), tag("b")>>,
     <<tag("a"), tag("a")>>, <<tag("a"), tag(Blank)>>}
\* Values of the 'ingredients' field of a recipe payload.
IngredientPayloads ==
    {<<>>, <<ingredient("a", 1)>>, <<ingredient("a", 2)>>,
     <<ingredient("a", 1), ingredient("a", 2)>>, <<ingredient(Blank, 1)>>}
\* The relation fields of a recipe payload: none, one, or both.
RelationData ==
    {NoData}
    \cup {[tags |-> t] : t \in TagPayloads}
    \cup {[ingredients |-> i] : i \in IngredientPayloads}
    \cup {[tags |-> t, ingredients |-> i] :
            t \in {<<tag("a")>>, <<tag("b"), tag("a")>>},
            i \in {<<ingredient("a", 1)>>, <<ingredient(Blank, 1)>>}}

RecipeCreateData(u) ==
    IF u = FirstUser
    THEN {Merge([title |-> "t1"], r) : r \in RelationData}
         \cup {[title |-> "t2"], [tags |-> <<tag("a")>>], [title |-> Blank],
               [title |-> "t1", user |-> "u2"]}
    ELSE {[title |-> "t1"], [title |-> "t1", tags |-> <<tag("a")>>],
          [title |-> "t1", ingredients |-> <<ingredient("a", 1)>>],
          [title |-> "t1", user |-> FirstUser]}

\* Payloads sent to a recipe the client does not own, or that does not exist.
RecipeProbeData ==
    {NoData, [title |-> "t2"], [tags |-> <<>>], [tags |-> <<tag("b")>>],
     [ingredients |-> <<ingredient("a", 2)>>], [title |-> Blank]}

RecipePatchData(u) ==
    IF u = FirstUser
    THEN RelationData \cup RecipeProbeData
         \cup {[title |-> "t2", tags |-> <<tag("a")>>],
               [title |-> "t2", tags |-> <<tag("a"), tag(Blank)>>],
               [title |-> "t2", ingredients |-> <<ingredient("a", 1)>>],
               [user |-> "u2"], [user |-> "u2", title |-> "t2"]}
    ELSE RecipeProbeData \cup {[user |-> FirstUser]}

RecipePutData(u) ==
    {[title |-> "t1"], [title |-> "t2", tags |-> <<tag("b")>>],
     [tags |-> <<tag("b")>>]}

\* Uploaded files: an image, and a file that is no image.
Files ==
    {[stem |-> "photo", ext |-> ".png", is_image |-> TRUE],
     [stem |-> "notes", ext |-> ".txt", is_image |-> FALSE]}

\* GET on the detail routes.
Retrieves(op, users) ==
    {Req(op, u, pk, "GET", NoData, NoData) : u \in users, pk \in Pks}
    \cup {Req(op, Anonymous, 1, "GET", NoData, NoData)}

RecipeRetrieveRequests == Retrieves("recipe-retrieve", Users)
TagRetrieveRequests == Retrieves("tag-retrieve", Users)
IngredientRetrieveRequests == Retrieves("ingredient-retrieve", Users)

RecipeListRequests ==
    Gets("recipe-list", Users, {NoData, [tags |-> <<"1">>]})
    \cup Gets("recipe-list", {Anonymous}, {NoData})

RecipeCreateRequests ==
    Posts("recipe-create", Users, [u \in Users |-> RecipeCreateData(u)])
    \cup {Req("recipe-create", Anonymous, 0, "POST", [title |-> "t1"], NoData)}

RecipeUpdateRequests ==
    Updates("recipe-update", "PATCH", Users, [u \in Users |-> RecipePatchData(u)])
    \cup Updates("recipe-update", "PUT", Users, [u \in Users |-> RecipePutData(u)])
    \cup {Req("recipe-update", Anonymous, pk, "PATCH", [title |-> "t2"], NoData) :
            pk \in Pks}

RecipeDestroyRequests == Deletes("recipe-destroy", Principals)

\* Uploads that store no image (no file, or a file that is no image), and
\* an upload without credentials.
RecipeUploadImageRequests ==
    {Req("recipe-upload-image", u, pk, "POST", d, NoData) :
        u \in Users, pk \in Pks,
        d \in {NoData} \cup {[image |-> f] : f \in {g \in Files : ~g.is_image}}}
    \cup {Req("recipe-upload-image", Anonymous, pk, "POST", [image |-> f], NoData) :
            pk \in Pks, f \in {g \in Files : g.is_image}}

TagData(u) ==
    IF u = FirstUser
    THEN {NoData, [name |-> "a"], [name |-> "b"], [name |-> Blank],
          [user |-> "u2"], [name |-> "b", user |-> "u2"]}
    ELSE {[name |-> "a"], [name |-> "a", user |-> FirstUser]}

\* Payloads sent to a tag the client does not own, or that does not exist.
TagProbeData == {NoData, [name |-> "b"], [name |-> Blank]}

TagPatchData(u) == TagData(u) \cup TagProbeData
TagPutData(u) == {NoData, [name |-> "b"]}

TagListRequests ==
    Gets("tag-list", Users, {NoData, [assigned_only |-> <<"1">>]})
    \cup Gets("tag-list", {Anonymous}, {NoData})

TagCreateRequests ==
    Posts("tag-create", Users, [u \in Users |-> TagData(u)])
    \cup {Req("tag-create", Anonymous, 0, "POST", [name |-> "a"], NoData)}

TagUpdateRequests ==
    Updates("tag-update", "PATCH", Users, [u \in Users |-> TagPatchData(u)])
    \cup Updates("tag-update", "PUT", Users, [u \in Users |-> TagPutData(u)])
    \cup {Req("tag-update", Anonymous, pk, "PATCH", [name |-> "b"], NoData) : pk \in Pks}

TagDestroyRequests == Deletes("tag-destroy", Principals)

IngredientData(u) ==
    IF u = FirstUser
    THEN {NoData, [name |-> Blank, quantity |-> 1], [name |-> "a"], [quantity |-> 2],
          [name |-> "a", quantity |-> 1], [name |-> "a", quantity |-> 2],
          [user |-> "u2"], [name |-> "a", quantity |-> 1, user |-> "u2"]}
    ELSE {[name |-> "a", quantity |-> 1],
          [name |-> "a", quantity |-> 1, user |-> FirstUser]}

\* Payloads sent to an ingredient the client does not own, or that does not
\* exist.
IngredientProbeData == {NoData, [quantity |-> 2], [name |-> Blank]}

IngredientPatchData(u) == IngredientData(u) \cup IngredientProbeData
IngredientPutData(u) == {NoData, [name |-> "a", quantity |-> 2]}

IngredientListRequests ==
    Gets("ingredient-list", Users, {NoData, [assigned_only |-> <<"1">>]})
    \cup Gets("ingredient-list", {Anonymous}, {NoData})

IngredientCreateRequests ==
    Posts("ingredient-create", Users, [u \in Users |-> IngredientData(u)])
    \cup {Req("ingredient-create", Anonymous, 0, "POST",
              [name |-> "a", quantity |-> 1], NoData)}

IngredientUpdateRequests ==
    Updates("ingredient-update", "PATCH", Users, [u \in Users |-> IngredientPatchData(u)])
    \cup Updates("ingredient-update", "PUT", Users, [u \in Users |-> IngredientPutData(u)])
    \cup {Req("ingredient-update", Anonymous, pk, "PATCH", [quantity |-> 2], NoData) :
            pk \in Pks}

IngredientDestroyRequests == Deletes("ingredient-destroy", Principals)

(***************************************************************************)
(* The requests of SpecQuery: the query parameters of the list routes, and *)
(* the writes that build the rows and links they filter.                   *)
(***************************************************************************)
\* Values of the 'tags' and 'ingredients' query parameters.
IdListParams ==
    {<<>>, <<"1">>, <<"2">>, <<"1", ",", "2">>, <<"2", ",", "1", ",", "2">>,
     <<"1", ",">>, <<"a">>, <<"1", ",", ",", "2">>}
\* Values of the 'assigned_only' query parameter.
AssignedOnlyParams == {<<"0">>, <<"1">>, <<"2">>, <<"a">>, <<>>}

\* The query parameters of a recipe list request.
RecipeListParams ==
    {NoData}
    \cup {[tags |-> t] : t \in IdListParams}
    \cup {[ingredients |-> i] : i \in IdListParams}
    \cup {[tags |-> t, ingredients |-> i] :
            t \in {<<"1">>, <<"1", ",", "2">>}, i \in {<<"1">>, <<"2">>}}

AttrListParams == {NoData} \cup {[assigned_only |-> a] : a \in AssignedOnlyParams}

QueryRecipeListRequests == Gets("recipe-list", Users, RecipeListParams)
QueryTagListRequests == Gets("tag-list", Users, AttrListParams)
QueryIngredientListRequests == Gets("ingredient-list", Users, AttrListParams)

QueryRecipeCreateData(u) ==
    {[title |-> "t1"], [title |-> "t1", tags |-> <<tag("a")>>],
     [title |-> "t1", tags |-> <<tag("a"), tag("b")>>],
     [title |-> "t1", ingredients |-> <<ingredient("a", 1)>>],
     [title |-> "t1", tags |-> <<tag("a")>>,
      ingredients |-> <<ingredient("a", 1)>>]}
QueryRecipePatchData(u) == {[tags |-> <<>>], [tags |-> <<tag("b")>>]}
QueryTagData(u) == IF u = FirstUser THEN {[name |-> "a"], [name |-> "b"]}
                   ELSE {[name |-> "a"]}
QueryTagPatchData(u) == {[name |-> "a"]}
QueryIngredientData(u) == {[name |-> "a", quantity |-> 1]}

QueryRecipeCreateRequests == Posts("recipe-create", Users, [u \in Users |-> QueryRecipeCreateData(u)])
QueryRecipeUpdateRequests ==
    Updates("recipe-update", "PATCH", Users, [u \in Users |-> QueryRecipePatchData(u)])
QueryTagCreateRequests == Posts("tag-create", Users, [u \in Users |-> QueryTagData(u)])
QueryTagUpdateRequests == Updates("tag-update", "PATCH", Users, [u \in Users |-> QueryTagPatchData(u)])
QueryTagDestroyRequests == Deletes("tag-destroy", Users)
QueryIngredientCreateRequests ==
    Posts("ingredient-create", Users, [u \in Users |-> QueryIngredientData(u)])

\* The client owns the row it names, or sends one of the probe payloads.
Targeted(req, table, Probe) ==
    \/ \E o \in table : o.id = req.pk /\ o.user = req.user
    \/ req.data \in Probe

(***************************************************************************)
(* recipe/views.py: the handlers.  A handler answers one request: it sets  *)
(* request and response and commits what it wrote to the database.         *)
(***************************************************************************)
Commit(d) ==
    /\ recipes' = d.recipes
    /\ tags' = d.tags
    /\ ingredients' = d.ingredients
    /\ recipe_tags' = d.recipe_tags
    /\ recipe_ingredients' = d.recipe_ingredients
    /\ sequences' = d.sequences

Respond(status, data) == response' = [status |-> status, data |-> data]

\* A request arrives at the idle server, or the client sends again the
\* request that was just answered.
Receive(req) ==
    /\ request = NoRequest \/ request = req
    /\ request' = req
    /\ before' = DB
    /\ UNCHANGED <<user_table, call, workers>>

\* Mutant of IsAuthenticated: permission_classes = [AllowAny].
AllowAny(req) == TRUE

\* permission_classes = [IsAuthenticated] with TokenAuthentication
IsAuthenticated(req) == req.user \in Users

\* The request is refused before its handler runs.
NotAuthenticated == Respond(HTTP_401_UNAUTHORIZED, <<>>) /\ UNCHANGED store

\* GET /recipe/recipes
RecipeViewSet_list(req) ==
    /\ Receive(req)
    /\ IF ~IsAuthenticated(req) THEN NotAuthenticated
       ELSE LET queryset == RecipeViewSet_get_queryset(DB, req.user, req.query_params)
            IN  /\ UNCHANGED store
                /\ IF ~queryset.ok THEN Respond(HTTP_500_SERVER_ERROR, <<>>)
                   ELSE \E s \in order_by(queryset.rows, [row \in queryset.rows |-> RecipeOrder(row)]) :
                            Respond(HTTP_200_OK, Ids(s))

\* GET /recipe/recipes/{pk}: ModelViewSet.retrieve
RecipeViewSet_retrieve(req) ==
    /\ Receive(req)
    /\ IF ~IsAuthenticated(req) THEN NotAuthenticated
       ELSE LET queryset == RecipeViewSet_get_queryset(DB, req.user, req.query_params)
                instance == get_object(queryset, req.pk)
            IN  /\ UNCHANGED store
                /\ IF ~queryset.ok THEN Respond(HTTP_500_SERVER_ERROR, <<>>)
                   ELSE IF ~instance.found THEN Respond(HTTP_404_NOT_FOUND, <<>>)
                   ELSE Respond(HTTP_200_OK, <<instance.id>>)

\* POST /recipe/recipes
RecipeViewSet_create(req) ==
    /\ Receive(req)
    /\ IF ~IsAuthenticated(req) THEN NotAuthenticated
       ELSE IF ~RecipeDetailSerializer_is_valid(req.data, FALSE)
       THEN Respond(HTTP_400_BAD_REQUEST, <<>>) /\ UNCHANGED store
       ELSE LET fields == {"title", "tags", "ingredients"}
                saved == RecipeDetailSerializer_create(
                             DB, req.user, validated(req.data, fields))
            IN  /\ Commit(saved.db)
                /\ IF saved.ok THEN Respond(HTTP_201_CREATED, <<saved.id>>)
                   ELSE Respond(HTTP_500_SERVER_ERROR, <<>>)

\* PATCH, PUT /recipe/recipes/{pk}
RecipeViewSet_update(req) ==
    /\ Receive(req)
    /\ IF ~IsAuthenticated(req) THEN NotAuthenticated
       ELSE LET queryset == RecipeViewSet_get_queryset(DB, req.user, req.query_params)
                instance == get_object(queryset, req.pk)
                fields == {"title", "tags", "ingredients"}
                saved == RecipeDetailSerializer_update(
                             DB, req.user, instance.id, validated(req.data, fields))
            IN  IF ~queryset.ok
                THEN Respond(HTTP_500_SERVER_ERROR, <<>>) /\ UNCHANGED store
                ELSE IF ~instance.found
                THEN Respond(HTTP_404_NOT_FOUND, <<>>) /\ UNCHANGED store
                ELSE IF ~RecipeDetailSerializer_is_valid(req.data, req.method = "PATCH")
                THEN Respond(HTTP_400_BAD_REQUEST, <<>>) /\ UNCHANGED store
                ELSE /\ Commit(saved.db)
                     /\ IF saved.ok THEN Respond(HTTP_200_OK, <<instance.id>>)
                        ELSE Respond(HTTP_500_SERVER_ERROR, <<>>)

\* Model.delete of a recipe: the row and its links.
Recipe_delete(d, id) ==
    [d EXCEPT !.recipes = {r \in @ : r.id # id},
              !.recipe_tags = {l \in @ : l[1] # id},
              !.recipe_ingredients = {l \in @ : l[1] # id}]

\* DELETE /recipe/recipes/{pk}
RecipeViewSet_destroy(req) ==
    /\ Receive(req)
    /\ IF ~IsAuthenticated(req) THEN NotAuthenticated
       ELSE LET queryset == RecipeViewSet_get_queryset(DB, req.user, req.query_params)
                instance == get_object(queryset, req.pk)
            IN  IF ~queryset.ok
                THEN Respond(HTTP_500_SERVER_ERROR, <<>>) /\ UNCHANGED store
                ELSE IF ~instance.found
                THEN Respond(HTTP_404_NOT_FOUND, <<>>) /\ UNCHANGED store
                ELSE /\ Commit(Recipe_delete(DB, instance.id))
                     /\ Respond(HTTP_204_NO_CONTENT, <<>>)

\* core.models.recipe_image_file_path: the extension of the uploaded file
\* after a generated name.
recipe_image_file_path(file) ==
    [dir |-> "uploads/recipe", name |-> "uuid4", ext |-> file.ext]

\* Mutant of RecipeImageSerializer_is_valid: image is a FileField, and any
\* uploaded file is accepted.
RecipeImageSerializer_is_valid_any_file(data) == "image" \in DOMAIN data

\* RecipeImageSerializer.is_valid: image is required and must decode.
RecipeImageSerializer_is_valid(data) ==
    "image" \in DOMAIN data /\ data.image.is_image

\* POST /recipe/recipes/{pk}/upload-image
RecipeViewSet_upload_image(req) ==
    /\ Receive(req)
    /\ IF ~IsAuthenticated(req) THEN NotAuthenticated
       ELSE LET queryset == RecipeViewSet_get_queryset(DB, req.user, req.query_params)
                recipe == get_object(queryset, req.pk)
            IN  IF ~queryset.ok
                THEN Respond(HTTP_500_SERVER_ERROR, <<>>) /\ UNCHANGED store
                ELSE IF ~recipe.found
                THEN Respond(HTTP_404_NOT_FOUND, <<>>) /\ UNCHANGED store
                ELSE IF RecipeImageSerializer_is_valid(req.data)
                THEN /\ Commit(save_fields(DB, recipe.id,
                            [image |-> recipe_image_file_path(req.data.image)]))
                     /\ Respond(HTTP_200_OK, <<recipe.id>>)
                ELSE Respond(HTTP_400_BAD_REQUEST, <<>>) /\ UNCHANGED store

(***************************************************************************)
(* BaseRecipeAttrViewSet and its two subclasses, TagViewSet and            *)
(* IngredientViewSet; kind is "tag" or "ingredient".                       *)
(***************************************************************************)
Table(d, kind) == IF kind = "tag" THEN d.tags ELSE d.ingredients
Links(d, kind) == IF kind = "tag" THEN d.recipe_tags ELSE d.recipe_ingredients
Fields(kind) == IF kind = "tag" THEN {"name"} ELSE {"name", "quantity"}
is_valid(kind, data, partial) ==
    IF kind = "tag" THEN TagSerializer_is_valid(data, partial)
    ELSE IngredientSerializer_is_valid(data, partial)

\* perform_create: serializer.save(user=self.request.user)
BaseRecipeAttrViewSet_perform_create(d, kind, user, validated_data) ==
    LET id == IF kind = "tag" THEN d.sequences.tag ELSE d.sequences.ingredient
        row == Merge(validated_data, [id |-> id, user |-> user])
    IN  IF kind = "tag"
        THEN [d EXCEPT !.tags = @ \cup {row}, !.sequences.tag = @ + 1]
        ELSE [d EXCEPT !.ingredients = @ \cup {row}, !.sequences.ingredient = @ + 1]

\* ModelSerializer.update: the validated fields of the row are set.
attr_update(d, kind, id, validated_data) ==
    LET rows == {IF o.id = id THEN Merge(o, validated_data) ELSE o :
                    o \in Table(d, kind)}
    IN  IF kind = "tag" THEN [d EXCEPT !.tags = rows]
        ELSE [d EXCEPT !.ingredients = rows]

\* Mutant of attr_delete: the links of the deleted row stay behind.
attr_delete_keeps_links(d, kind, id) ==
    IF kind = "tag" THEN [d EXCEPT !.tags = {o \in @ : o.id # id}]
    ELSE [d EXCEPT !.ingredients = {o \in @ : o.id # id}]

\* Model.delete of a tag or an ingredient: the row and its links.
attr_delete(d, kind, id) ==
    IF kind = "tag"
    THEN [d EXCEPT !.tags = {o \in @ : o.id # id},
                   !.recipe_tags = {l \in @ : l[2] # id}]
    ELSE [d EXCEPT !.ingredients = {o \in @ : o.id # id},
                   !.recipe_ingredients = {l \in @ : l[2] # id}]

\* GET /recipe/tags, /recipe/ingredients
BaseRecipeAttrViewSet_list(kind, req) ==
    /\ Receive(req)
    /\ IF ~IsAuthenticated(req) THEN NotAuthenticated
       ELSE LET table == Table(DB, kind)
                queryset == BaseRecipeAttrViewSet_get_queryset(
                                table, Links(DB, kind), req.user, req.query_params)
                NameKey(row) == NameOrder(Row(table, row.id).name)
            IN  /\ UNCHANGED store
                /\ IF ~queryset.ok THEN Respond(HTTP_500_SERVER_ERROR, <<>>)
                   ELSE \E s \in order_by(queryset.rows, [row \in queryset.rows |-> NameKey(row)]) :
                            Respond(HTTP_200_OK, Ids(s))

\* Mutant of BaseRecipeAttrViewSet_retrieve: RetrieveModelMixin is among the
\* bases, and GET on the detail route returns the row.
BaseRecipeAttrViewSet_retrieve_mixed_in(kind, req) ==
    /\ Receive(req)
    /\ IF ~IsAuthenticated(req) THEN NotAuthenticated
       ELSE LET queryset == BaseRecipeAttrViewSet_get_queryset(
                                Table(DB, kind), Links(DB, kind), req.user,
                                req.query_params)
                instance == get_object(queryset, req.pk)
            IN  /\ UNCHANGED store
                /\ IF ~instance.found THEN Respond(HTTP_404_NOT_FOUND, <<>>)
                   ELSE Respond(HTTP_200_OK, <<instance.id>>)

\* GET /recipe/tags/{pk}, /recipe/ingredients/{pk}: the bases of the class
\* are the list, create, update and destroy mixins, so the detail route
\* binds no handler to GET; the request is authenticated, then refused.
BaseRecipeAttrViewSet_retrieve(kind, req) ==
    /\ Receive(req)
    /\ IF ~IsAuthenticated(req) THEN NotAuthenticated
       ELSE Respond(HTTP_405_METHOD_NOT_ALLOWED, <<>>) /\ UNCHANGED store

\* POST /recipe/tags, /recipe/ingredients
BaseRecipeAttrViewSet_create(kind, req) ==
    /\ Receive(req)
    /\ IF ~IsAuthenticated(req) THEN NotAuthenticated
       ELSE IF ~is_valid(kind, req.data, FALSE)
       THEN Respond(HTTP_400_BAD_REQUEST, <<>>) /\ UNCHANGED store
       ELSE LET d == BaseRecipeAttrViewSet_perform_create(
                         DB, kind, req.user, validated(req.data, Fields(kind)))
            IN  /\ Commit(d)
                /\ Respond(HTTP_201_CREATED,
                           <<IF kind = "tag" THEN sequences.tag
                             ELSE sequences.ingredient>>)

\* PATCH, PUT /recipe/tags/{pk}, /recipe/ingredients/{pk}
BaseRecipeAttrViewSet_update(kind, req) ==
    /\ Receive(req)
    /\ IF ~IsAuthenticated(req) THEN NotAuthenticated
       ELSE LET queryset == BaseRecipeAttrViewSet_get_queryset(
                                Table(DB, kind), Links(DB, kind), req.user,
                                req.query_params)
                instance == get_object(queryset, req.pk)
            IN  IF ~queryset.ok
                THEN Respond(HTTP_500_SERVER_ERROR, <<>>) /\ UNCHANGED store
                ELSE IF ~instance.found
                THEN Respond(HTTP_404_NOT_FOUND, <<>>) /\ UNCHANGED store
                ELSE IF ~is_valid(kind, req.data, req.method = "PATCH")
                THEN Respond(HTTP_400_BAD_REQUEST, <<>>) /\ UNCHANGED store
                ELSE /\ Commit(attr_update(DB, kind, instance.id,
                                           validated(req.data, Fields(kind))))
                     /\ Respond(HTTP_200_OK, <<instance.id>>)

\* DELETE /recipe/tags/{pk}, /recipe/ingredients/{pk}
BaseRecipeAttrViewSet_destroy(kind, req) ==
    /\ Receive(req)
    /\ IF ~IsAuthenticated(req) THEN NotAuthenticated
       ELSE LET queryset == BaseRecipeAttrViewSet_get_queryset(
                                Table(DB, kind), Links(DB, kind), req.user,
                                req.query_params)
                instance == get_object(queryset, req.pk)
            IN  IF ~queryset.ok
                THEN Respond(HTTP_500_SERVER_ERROR, <<>>) /\ UNCHANGED store
                ELSE IF ~instance.found
                THEN Respond(HTTP_404_NOT_FOUND, <<>>) /\ UNCHANGED store
                ELSE /\ Commit(attr_delete(DB, kind, instance.id))
                     /\ Respond(HTTP_204_NO_CONTENT, <<>>)

(***************************************************************************)
(* The actions: one per route, over the requests of a specification.       *)
(***************************************************************************)
RecipeList(Requests) == \E req \in Requests : RecipeViewSet_list(req)
RecipeRetrieve(Requests) == \E req \in Requests : RecipeViewSet_retrieve(req)
RecipeCreate(Requests, max_rows) ==
    \E req \in Requests : RecipeViewSet_create(req) /\ WithinBounds(max_rows)
RecipeUpdate(Requests, max_rows) ==
    \E req \in Requests :
        /\ Targeted(req, recipes, RecipeProbeData)
        /\ RecipeViewSet_update(req)
        /\ WithinBounds(max_rows)
RecipeDestroy(Requests) == \E req \in Requests : RecipeViewSet_destroy(req)
RecipeUploadImage(Requests) == \E req \in Requests : RecipeViewSet_upload_image(req)

TagList(Requests) == \E req \in Requests : BaseRecipeAttrViewSet_list("tag", req)
TagRetrieve(Requests) ==
    \E req \in Requests : BaseRecipeAttrViewSet_retrieve("tag", req)
TagCreate(Requests, max_rows) ==
    \E req \in Requests :
        BaseRecipeAttrViewSet_create("tag", req) /\ WithinBounds(max_rows)
TagUpdate(Requests) ==
    \E req \in Requests :
        Targeted(req, tags, TagProbeData) /\ BaseRecipeAttrViewSet_update("tag", req)
TagDestroy(Requests) == \E req \in Requests : BaseRecipeAttrViewSet_destroy("tag", req)

IngredientList(Requests) ==
    \E req \in Requests : BaseRecipeAttrViewSet_list("ingredient", req)
IngredientRetrieve(Requests) ==
    \E req \in Requests : BaseRecipeAttrViewSet_retrieve("ingredient", req)
IngredientCreate(Requests, max_rows) ==
    \E req \in Requests :
        BaseRecipeAttrViewSet_create("ingredient", req) /\ WithinBounds(max_rows)
IngredientUpdate(Requests) ==
    \E req \in Requests :
        /\ Targeted(req, ingredients, IngredientProbeData)
        /\ BaseRecipeAttrViewSet_update("ingredient", req)
IngredientDestroy(Requests) ==
    \E req \in Requests : BaseRecipeAttrViewSet_destroy("ingredient", req)

\* The response is sent and the server is ready for the next request.
Deliver ==
    /\ request # NoRequest
    /\ request' = NoRequest
    /\ response' = NoResponse
    /\ before' = DB
    /\ UNCHANGED <<store, user_table, call, workers>>

Init ==
    /\ recipes = {}
    /\ tags = {}
    /\ ingredients = {}
    /\ recipe_tags = {}
    /\ recipe_ingredients = {}
    /\ sequences = [recipe |-> 1, tag |-> 1, ingredient |-> 1]
    /\ request = NoRequest
    /\ response = NoResponse
    /\ before = DB
    /\ user_table = {}
    /\ call = NoCall
    /\ workers = [w \in Workers |-> Idle]

\* Every route, with the payloads of create, update and delete.
Next ==
    \/ RecipeList(RecipeListRequests)
    \/ RecipeRetrieve(RecipeRetrieveRequests)
    \/ TagRetrieve(TagRetrieveRequests)
    \/ IngredientRetrieve(IngredientRetrieveRequests)
    \/ RecipeCreate(RecipeCreateRequests, MaxRows)
    \/ RecipeUpdate(RecipeUpdateRequests, MaxRows)
    \/ RecipeDestroy(RecipeDestroyRequests)
    \/ RecipeUploadImage(RecipeUploadImageRequests)
    \/ TagList(TagListRequests)
    \/ TagCreate(TagCreateRequests, MaxRows)
    \/ TagUpdate(TagUpdateRequests)
    \/ TagDestroy(TagDestroyRequests)
    \/ IngredientList(IngredientListRequests)
    \/ IngredientCreate(IngredientCreateRequests, MaxRows)
    \/ IngredientUpdate(IngredientUpdateRequests)
    \/ IngredientDestroy(IngredientDestroyRequests)
    \/ Deliver

Spec == Init /\ [][Next]_vars

\* The list routes with their query parameters, over the rows and links a
\* few writes build.
NextQuery ==
    \/ RecipeList(QueryRecipeListRequests)
    \/ TagList(QueryTagListRequests)
    \/ IngredientList(QueryIngredientListRequests)
    \/ RecipeCreate(QueryRecipeCreateRequests, MaxQueryRows)
    \/ RecipeUpdate(QueryRecipeUpdateRequests, MaxQueryRows)
    \/ TagCreate(QueryTagCreateRequests, MaxQueryRows)
    \/ TagUpdate(QueryTagUpdateRequests)
    \/ TagDestroy(QueryTagDestroyRequests)
    \/ IngredientCreate(QueryIngredientCreateRequests, MaxQueryRows)
    \/ Deliver

SpecQuery == Init /\ [][NextQuery]_vars

\* The upload of images: every upload, of a file that is an image, of one
\* that is none and of no file, to the recipes a few creates build.
ImageFiles == Files \cup {[stem |-> "photo", ext |-> ".jpg", is_image |-> TRUE]}

ImageUploadRequests ==
    {Req("recipe-upload-image", u, pk, "POST", d, NoData) :
        u \in Users, pk \in Pks, d \in {NoData} \cup {[image |-> f] : f \in ImageFiles}}
    \cup {Req("recipe-upload-image", Anonymous, 1, "POST", [image |-> f], NoData) :
            f \in ImageFiles}

NextImage ==
    \/ RecipeCreate(QueryRecipeCreateRequests, MaxImageRows)
    \/ RecipeUploadImage(ImageUploadRequests)
    \/ RecipeRetrieve(RecipeRetrieveRequests)
    \/ Deliver

SpecImage == Init /\ [][NextImage]_vars

(***************************************************************************)
(* Concurrent requests.  The server runs one request per worker, and there *)
(* is no transaction (ATOMIC_REQUESTS is not set): every statement of      *)
(* RecipeDetailSerializer.create and update is committed as it runs, and   *)
(* the statements of two workers interleave.  A worker holds its request,  *)
(* the instance it loaded and the statements it still has to run.          *)
(***************************************************************************)
Statement(op, kind, descriptor, id) ==
    [op |-> op, kind |-> kind, descriptor |-> descriptor, id |-> id]

\* _add_tags, _add_ingredients: one get_or_create per descriptor.
add_statements(kind, list) ==
    [i \in 1..Len(list) |-> Statement("get", kind, list[i], 0)]

\* The statements of RecipeDetailSerializer.update after get_object.
update_statements(validated_data) ==
    (IF "tags" \in DOMAIN validated_data
     THEN <<Statement("clear", "tag", NoData, 0)>>
          \o add_statements("tag", validated_data.tags)
     ELSE <<>>)
    \o (IF "ingredients" \in DOMAIN validated_data
        THEN <<Statement("clear", "ingredient", NoData, 0)>>
             \o add_statements("ingredient", validated_data.ingredients)
        ELSE <<>>)
    \o <<Statement("save", "recipe", NoData, 0)>>

\* The statements of RecipeDetailSerializer.create after
\* Recipe.objects.create.
create_statements(validated_data) ==
    add_statements("tag", pop(validated_data, "tags", <<>>))
    \o add_statements("ingredient", pop(validated_data, "ingredients", <<>>))

\* objects.filter(user=user, **descriptor)
objects_filter(table, user, descriptor) ==
    {o \in table : o.user = user /\ \A k \in DOMAIN descriptor : o[k] = descriptor[k]}

\* The scalar attributes that update sets on the loaded instance; an image
\* is stored under its upload path.
attributes(validated_data) ==
    [k \in DOMAIN validated_data \ {"tags", "ingredients"} |->
        IF k = "image" THEN recipe_image_file_path(validated_data[k])
        ELSE validated_data[k]]

\* The requests of the concurrent workers: creates and updates of one user,
\* with valid payloads; the updates are sent to the first recipe.
ConcurrentCreateData ==
    {[title |-> "t1"], [title |-> "t1", tags |-> <<tag("a")>>]}
ConcurrentUpdateData ==
    {[tags |-> <<>>], [tags |-> <<tag("a")>>], [tags |-> <<tag("b")>>],
     [ingredients |-> <<ingredient("a", 1)>>], [title |-> "t2"],
     [image |-> [stem |-> "photo", ext |-> ".png", is_image |-> TRUE]]}
ConcurrentRequests ==
    {Req("recipe-create", FirstUser, 0, "POST", d, NoData) : d \in ConcurrentCreateData}
    \cup {Req("recipe-update", FirstUser, 1, "PATCH", d, NoData) :
            d \in ConcurrentUpdateData}

Running(w) == workers[w].pc = "running" /\ workers[w].todo # <<>>
Statement_of(w) == Head(workers[w].todo)

\* The worker goes on with the statements rest; after the last one the
\* request is answered.
Continue(w, rest) ==
    workers' = [workers EXCEPT ![w] =
        IF rest = <<>>
        THEN [@ EXCEPT !.pc = "done", !.todo = <<>>,
                       !.status = IF workers[w].req.op = "recipe-create"
                                  THEN HTTP_201_CREATED ELSE HTTP_200_OK]
        ELSE [@ EXCEPT !.todo = rest]]

\* The worker that takes the next request: the first one that is free.
FirstFree == IF workers["w1"] = Idle THEN "w1" ELSE "w2"

\* A worker takes a request.  An update loads the instance (get_object) and
\* a create inserts the recipe (Recipe.objects.create).
Begin(w, req) ==
    /\ workers[w] = Idle
    /\ w = FirstFree
    /\ LET fields == {"title", "tags", "ingredients", "image"}
           validated_data == validated(req.data, fields)
           queryset == RecipeViewSet_get_queryset(DB, req.user, req.query_params)
           instance == get_object(queryset, req.pk)
           recipe == [id |-> sequences.recipe, user |-> req.user,
                      title |-> validated_data.title, image |-> NoImage]
           worker(row, todo) ==
               [pc |-> "running", req |-> req, instance |-> row, todo |-> todo,
                status |-> 0]
       IN  IF req.op = "recipe-create"
           THEN /\ Commit([DB EXCEPT !.recipes = @ \cup {recipe},
                                     !.sequences.recipe = @ + 1])
                /\ IF create_statements(validated_data) = <<>>
                   THEN workers' = [workers EXCEPT ![w] =
                            [worker(recipe, <<>>) EXCEPT !.pc = "done",
                                                       !.status = HTTP_201_CREATED]]
                   ELSE workers' = [workers EXCEPT ![w] =
                            worker(recipe, create_statements(validated_data))]
           ELSE /\ instance.found
                /\ workers' = [workers EXCEPT ![w] =
                       worker(Row(recipes, instance.id),
                              update_statements(validated_data))]
                /\ UNCHANGED store
    /\ UNCHANGED <<request, response, before, user_table, call>>

\* instance.tags.clear(), instance.ingredients.clear()
Clear(w) ==
    /\ Running(w)
    /\ Statement_of(w).op = "clear"
    /\ Commit(IF Statement_of(w).kind = "tag"
              THEN tags_clear(DB, workers[w].instance.id)
              ELSE ingredients_clear(DB, workers[w].instance.id))
    /\ Continue(w, Tail(workers[w].todo))
    /\ UNCHANGED <<request, response, before, user_table, call>>

\* The get of get_or_create: the row that matches, DoesNotExist when there
\* is none (the create follows), MultipleObjectsReturned when there are
\* several (the request fails).
Get(w) ==
    /\ Running(w)
    /\ Statement_of(w).op = "get"
    /\ LET s == Statement_of(w)
           matches == objects_filter(Table(DB, s.kind), workers[w].req.user,
                                     s.descriptor)
       IN  workers' = [workers EXCEPT ![w] =
               IF Cardinality(matches) > 1
               THEN [@ EXCEPT !.pc = "done", !.todo = <<>>,
                              !.status = HTTP_500_SERVER_ERROR]
               ELSE IF matches # {}
               THEN [@ EXCEPT !.todo[1] = Statement("add", s.kind, s.descriptor,
                                              (CHOOSE o \in matches : TRUE).id)]
               ELSE [@ EXCEPT !.todo[1] = Statement("create", s.kind, s.descriptor, 0)]]
    /\ UNCHANGED <<store, request, response, before, user_table, call>>

\* Mutant of Insert: unique_together = ('user', 'name') on the table; the
\* insert of a second row raises IntegrityError and get_or_create returns
\* the row that is stored.
Insert_unique(d, kind, user, descriptor) ==
    LET matches == objects_filter(Table(d, kind), user, descriptor)
        id == IF kind = "tag" THEN d.sequences.tag ELSE d.sequences.ingredient
        row == Merge(descriptor, [id |-> id, user |-> user])
    IN  IF matches # {} THEN [db |-> d, id |-> (CHOOSE o \in matches : TRUE).id]
        ELSE [db |-> IF kind = "tag"
                     THEN [d EXCEPT !.tags = @ \cup {row}, !.sequences.tag = @ + 1]
                     ELSE [d EXCEPT !.ingredients = @ \cup {row},
                                    !.sequences.ingredient = @ + 1],
              id |-> id]

\* The create of get_or_create: objects.create(user=user, **descriptor).
\* No constraint of Tag or Ingredient refuses a second row: [db, id].
Insert(d, kind, user, descriptor) ==
    LET id == IF kind = "tag" THEN d.sequences.tag ELSE d.sequences.ingredient
        row == Merge(descriptor, [id |-> id, user |-> user])
    IN  [db |-> IF kind = "tag"
                THEN [d EXCEPT !.tags = @ \cup {row}, !.sequences.tag = @ + 1]
                ELSE [d EXCEPT !.ingredients = @ \cup {row},
                               !.sequences.ingredient = @ + 1],
         id |-> id]

Create(w) ==
    /\ Running(w)
    /\ Statement_of(w).op = "create"
    /\ LET s == Statement_of(w)
           inserted == Insert(DB, s.kind, workers[w].req.user, s.descriptor)
       IN  /\ Commit(inserted.db)
           /\ workers' = [workers EXCEPT ![w] =
                  [@ EXCEPT !.todo[1] = Statement("add", s.kind, s.descriptor,
                                                  inserted.id)]]
    /\ WithinBounds(MaxConcurrentRows)
    /\ UNCHANGED <<request, response, before, user_table, call>>

\* recipe.tags.add(tag_object), recipe.ingredients.add(ingredient_object)
Add(w) ==
    /\ Running(w)
    /\ Statement_of(w).op = "add"
    /\ LET s == Statement_of(w)
           link == <<workers[w].instance.id, s.id>>
       IN  Commit(IF s.kind = "tag"
                  THEN [DB EXCEPT !.recipe_tags = @ \cup {link}]
                  ELSE [DB EXCEPT !.recipe_ingredients = @ \cup {link}])
    /\ Continue(w, Tail(workers[w].todo))
    /\ UNCHANGED <<request, response, before, user_table, call>>

\* setattr for every remaining key, then instance.save(): the UPDATE writes
\* every column of the row from the instance the worker loaded.
Save(w) ==
    /\ Running(w)
    /\ Statement_of(w).op = "save"
    /\ LET instance == Merge(workers[w].instance,
                             attributes(validated(workers[w].req.data,
                                                  {"title", "image"})))
       IN  Commit([DB EXCEPT !.recipes =
                      {IF r.id = instance.id THEN instance ELSE r : r \in @}])
    /\ Continue(w, Tail(workers[w].todo))
    /\ UNCHANGED <<request, response, before, user_table, call>>

\* The response is sent and the worker is free.
Finish(w) ==
    /\ workers[w].pc = "done"
    /\ workers' = [workers EXCEPT ![w] = Idle]
    /\ UNCHANGED <<store, request, response, before, user_table, call>>

NextConcurrent ==
    \E w \in Workers :
        \/ \E req \in ConcurrentRequests :
               Begin(w, req) /\ WithinBounds(MaxConcurrentRows)
        \/ Clear(w)
        \/ Get(w)
        \/ Create(w)
        \/ Add(w)
        \/ Save(w)
        \/ Finish(w)

SpecConcurrent == Init /\ [][NextConcurrent]_vars

(***************************************************************************)
(* core/models.py: UserManager and User.  A string is the sequence of its  *)
(* characters.                                                             *)
(***************************************************************************)
\* The characters of the emails: a letter in lower and in upper case, a
\* space, a tab and the separator.
Chars == {"b", "B", " ", "\t", "@"}

\* str.lower on one character
lower_char(c) == IF c = "B" THEN "b" ELSE c

\* str.lower
lower(s) == [i \in 1..Len(s) |-> lower_char(s[i])]

\* str.replace(old, '') for a one-character old
replace(s, old) == SelectSeq(s, LAMBDA c : c # old)

\* Mutant of normalize_email: the first two pieces of the split are taken,
\* however many there are.
normalize_email_any_pieces(email) ==
    LET pieces == split(email, "@")
        name == pieces[1]
        domain == IF Len(pieces) > 1 THEN pieces[2] ELSE <<>>
    IN  [ok |-> TRUE, value |-> replace(name, " ") \o <<"@">> \o lower(replace(domain, " "))]

\* UserManager.normalize_email: [ok, value]; ok = FALSE is the ValueError
\* of unpacking a split that has not exactly two pieces.
normalize_email(email) ==
    LET pieces == split(email, "@") IN
    IF Len(pieces) # 2 THEN [ok |-> FALSE, value |-> <<>>]
    ELSE LET name == pieces[1]
             domain == pieces[2]
         IN  [ok |-> TRUE,
              value |-> replace(name, " ") \o <<"@">> \o lower(replace(domain, " "))]

\* AbstractBaseUser.set_password: the hash of the password is stored.
make_password(password) == [hashed |-> password]

\* User(email=..., **kw): the fields of the model with their defaults.
User(email, kw) ==
    [k \in {"email", "name", "is_active", "is_staff", "is_superuser", "password"} |->
        IF k \in DOMAIN kw THEN kw[k]
        ELSE CASE k = "email" -> email
               [] k = "name" -> ""
               [] k = "is_active" -> TRUE
               [] k = "password" -> ""
               [] OTHER -> FALSE]

\* user.save(): email is unique, and a second row with a stored email is
\* refused by the database (IntegrityError).
save(table, user) ==
    IF \E u \in table : u.email = user.email
    THEN [outcome |-> "IntegrityError", table |-> table]
    ELSE [outcome |-> "ok", table |-> table \cup {user}]

\* UserManager.create_user: [outcome, table]
create_user(table, email, password, kw) ==
    IF email = <<>> \/ split(email, "@")[1] = <<>>
    THEN [outcome |-> "ValueError", table |-> table]
    ELSE LET normalized == normalize_email(email) IN
         IF ~normalized.ok THEN [outcome |-> "ValueError", table |-> table]
         ELSE save(table, [User(normalized.value, kw) EXCEPT
                               !.password = make_password(password)])

\* Mutant of create_superuser: the flags are defaults that kw overrides.
create_superuser_setdefault(table, email, password, kw) ==
    create_user(table, email, password,
                Merge([is_staff |-> TRUE, is_superuser |-> TRUE], kw))

\* UserManager.create_superuser: is_staff and is_superuser are passed
\* beside **kw, so a kw that names one of them is a TypeError of the call.
create_superuser(table, email, password, kw) ==
    IF DOMAIN kw \cap {"is_staff", "is_superuser"} # {}
    THEN [outcome |-> "TypeError", table |-> table]
    ELSE create_user(table, email, password,
                     Merge(kw, [is_staff |-> TRUE, is_superuser |-> TRUE]))

\* The inputs of the calls.
Strings(n) == UNION {[1..k -> Chars] : k \in 0..n}
FirstEmails == Strings(MaxEmailLen)
NextEmails == Strings(MaxEmailLen - 1)
Passwords == {"password"}
ExtraFields == {NoData, [name |-> "n"], [is_staff |-> FALSE]}

\* One call of the manager on the stored users, made when the last one
\* has returned.
Call(op, email, password, kw, result) ==
    /\ call = NoCall
    /\ Cardinality(user_table) < MaxUsers
    /\ user_table' = result.table
    /\ call' = [op |-> op, email |-> email, password |-> password, kw |-> kw,
                outcome |-> result.outcome, before |-> user_table]
    /\ UNCHANGED <<store, request, response, before, workers>>

CreateUser ==
    \E email \in IF user_table = {} THEN FirstEmails ELSE NextEmails,
       password \in Passwords, kw \in ExtraFields :
        Call("create_user", email, password, kw,
             create_user(user_table, email, password, kw))

CreateSuperuser ==
    \E email \in IF user_table = {} THEN FirstEmails ELSE NextEmails,
       password \in Passwords, kw \in ExtraFields :
        Call("create_superuser", email, password, kw,
             create_superuser(user_table, email, password, kw))

\* The call returns to its caller.
Return ==
    /\ call # NoCall
    /\ call' = NoCall
    /\ UNCHANGED <<store, request, response, before, user_table, workers>>

NextUser == CreateUser \/ CreateSuperuser \/ Return

SpecUser == Init /\ [][NextUser]_vars

(***************************************************************************)
(* Properties.  A state with request # NoRequest is the state right after  *)
(* the handler of request ran: before is the database it found, DB the     *)
(* database it left and response its answer.                               *)
(***************************************************************************)
ListOps == {"recipe-list", "tag-list", "ingredient-list"}
CreateOps == {"recipe-create", "tag-create", "ingredient-create"}
UpdateOps == {"recipe-update", "tag-update", "ingredient-update"}
DestroyOps == {"recipe-destroy", "tag-destroy", "ingredient-destroy"}
RetrieveOps == {"recipe-retrieve", "tag-retrieve", "ingredient-retrieve"}
RecipeOps == {"recipe-list", "recipe-retrieve", "recipe-create", "recipe-update", "recipe-destroy",
              "recipe-upload-image"}
TagOps == {"tag-list", "tag-retrieve", "tag-create", "tag-update", "tag-destroy"}

Answered(ops) == request # NoRequest /\ request.op \in ops

\* The table of database d that the route op serves.
TableOf(d, op) ==
    IF op \in RecipeOps THEN d.recipes
    ELSE IF op \in TagOps THEN d.tags
    ELSE d.ingredients

AllRows(d) == d.recipes \cup d.tags \cup d.ingredients
SameTable(o, p) == DOMAIN o = DOMAIN p

\* The request names a row that existed when it arrived and that the sender
\* owned (Own) or that another user owned (~Own).
NamesRow(own) ==
    /\ request.user \in Users
    /\ \E o \in TableOf(before, request.op) :
           o.id = request.pk /\ ((o.user = request.user) <=> own)

\* The ids a valid id-list parameter names.
IdsOf(param) == Range(parameters_to_list(param).value)

\* C1: a list of recipes, tags or ingredients answered to user A holds only
\* rows whose owner is A, whatever the query parameters.
C1_ListingOnlyOwnRows ==
    Answered(ListOps) =>
        \A i \in 1..Len(response.data) :
            \E o \in TableOf(DB, request.op) :
                o.id = response.data[i] /\ o.user = request.user

\* A recipe list with a tags filter returned a row while a recipe of another
\* user is linked to one of the tags the filter names.
C1_Witness ==
    /\ Answered({"recipe-list"})
    /\ "tags" \in DOMAIN request.query_params
    /\ response.status = HTTP_200_OK
    /\ Len(response.data) > 0
    /\ \E r \in recipes, l \in recipe_tags :
           /\ r.user # request.user
           /\ l[1] = r.id
           /\ l[2] \in IdsOf(request.query_params.tags)

\* C2: an update or a delete by user A of a row that user B owns is answered
\* 404 and leaves the whole database as it was.
C2_OtherUsersRowNotFound ==
    (Answered(UpdateOps \cup DestroyOps) /\ NamesRow(FALSE)) =>
        /\ response.status = HTTP_404_NOT_FOUND
        /\ DB = before

\* An update with a tags payload, sent to a recipe of another user that has
\* links, was answered 404.
C2_Witness ==
    /\ Answered({"recipe-update"})
    /\ NamesRow(FALSE)
    /\ "tags" \in DOMAIN request.data
    /\ \E l \in recipe_tags : l[1] = request.pk
    /\ response.status = HTTP_404_NOT_FOUND

\* The payload of an update is valid and has no relation field.
ValidScalarUpdate ==
    /\ DOMAIN request.data \cap {"tags", "ingredients"} = {}
    /\ IF request.op = "recipe-update"
       THEN RecipeDetailSerializer_is_valid(request.data, request.method = "PATCH")
       ELSE is_valid(IF request.op = "tag-update" THEN "tag" ELSE "ingredient",
                     request.data, request.method = "PATCH")

C4_Unauthenticated401 ==
    (request # NoRequest /\ request.user \notin Users) =>
        /\ response.status = HTTP_401_UNAUTHORIZED
        /\ response.data = <<>>
        /\ DB = before

\* An upload of an image to an existing recipe, without credentials.
C4_Witness ==
    /\ Answered({"recipe-upload-image"})
    /\ request.user = Anonymous
    /\ \E r \in recipes : r.id = request.pk
    /\ response.status = HTTP_401_UNAUTHORIZED

\* The recipe a create or an update request writes.
WrittenRecipe ==
    IF request.op = "recipe-create" THEN before.sequences.recipe ELSE request.pk

\* The request is a recipe update by the owner, or a recipe create, whose
\* payload passes validation.
ValidRecipeWrite(ops) ==
    /\ Answered(ops)
    /\ request.user \in Users
    /\ request.op = "recipe-update" => NamesRow(TRUE)
    /\ RecipeDetailSerializer_is_valid(request.data, request.method = "PATCH")

LinkedTags(d, recipe) == {t \in d.tags : <<recipe, t.id>> \in d.recipe_tags}
LinkedIngredients(d, recipe) ==
    {i \in d.ingredients : <<recipe, i.id>> \in d.recipe_ingredients}

\* The rows of a table that user owns and whose fields are those of the
\* descriptor.
Matching(table, user, descriptor) ==
    {o \in table : o.user = user /\ \A k \in DOMAIN descriptor : o[k] = descriptor[k]}

\* The linked rows are exactly one row per descriptor of the payload, owned
\* by the sender, with the fields of the descriptor.
ExactlyResolved(linked, payload) ==
    /\ \A o \in linked :
           /\ o.user = request.user
           /\ \E i \in 1..Len(payload) : o \in Matching({o}, request.user, payload[i])
    /\ \A i \in 1..Len(payload) :
           Cardinality(Matching(linked, request.user, payload[i])) = 1

\* C5 (as claimed): after an update by the owner with a 'tags' field, the
\* tags of the recipe are exactly the rows the descriptors of the payload
\* resolve to, whatever was linked before: rows the sender owned are reused,
\* novel ones are created once, and an empty list leaves no link; likewise
\* for 'ingredients'.
C5_RelationReplaced ==
    ValidRecipeWrite({"recipe-update"}) =>
        /\ "tags" \in DOMAIN request.data =>
               /\ ExactlyResolved(LinkedTags(DB, request.pk), request.data.tags)
               /\ \A i \in 1..Len(request.data.tags) :
                      \/ Matching(before.tags, request.user, request.data.tags[i]) # {}
                      \/ Cardinality(Matching(tags, request.user,
                                              request.data.tags[i])) = 1
        /\ "ingredients" \in DOMAIN request.data =>
               /\ ExactlyResolved(LinkedIngredients(DB, request.pk),
                                  request.data.ingredients)
               /\ \A i \in 1..Len(request.data.ingredients) :
                      \/ Matching(before.ingredients, request.user,
                                  request.data.ingredients[i]) # {}
                      \/ Cardinality(Matching(ingredients, request.user,
                                              request.data.ingredients[i])) = 1

\* C6: an update by the owner without 'tags' leaves the tag links and the
\* Tag rows as they were, whatever the rest of the payload does; likewise
\* without 'ingredients'.
C6_AbsentRelationUntouched ==
    (Answered({"recipe-update"}) /\ NamesRow(TRUE)) =>
        /\ "tags" \notin DOMAIN request.data =>
               recipe_tags = before.recipe_tags /\ tags = before.tags
        /\ "ingredients" \notin DOMAIN request.data =>
               /\ recipe_ingredients = before.recipe_ingredients
               /\ ingredients = before.ingredients

\* An update with 'ingredients' and without 'tags' changed the ingredient
\* links of a recipe that has tags.
C6_Witness ==
    /\ Answered({"recipe-update"})
    /\ NamesRow(TRUE)
    /\ response.status = HTTP_200_OK
    /\ DOMAIN request.data = {"ingredients"}
    /\ recipe_ingredients # before.recipe_ingredients
    /\ LinkedTags(DB, request.pk) # {}

\* One descriptor is reconciled as claimed: the recipe is linked to a row of
\* the sender with the fields of the descriptor; that row is the one the
\* sender owned before, and then no row is inserted, or it is the one row
\* inserted for the descriptor.
Reconciled(table_before, table, linked, descriptor) ==
    LET old == Matching(table_before, request.user, descriptor)
        now == Matching(table, request.user, descriptor)
    IN  /\ Matching(linked, request.user, descriptor) # {}
        /\ IF old # {} THEN now = old ELSE Cardinality(now) = 1

\* C7 (as claimed): a recipe create or update reconciles every descriptor
\* of its payload, and links no row of another user.
C7_DescriptorReconciled ==
    ValidRecipeWrite({"recipe-create", "recipe-update"}) =>
        /\ \A o \in LinkedTags(DB, WrittenRecipe) \cup
                    LinkedIngredients(DB, WrittenRecipe) : o.user = request.user
        /\ "tags" \in DOMAIN request.data =>
               \A i \in 1..Len(request.data.tags) :
                   Reconciled(before.tags, tags, LinkedTags(DB, WrittenRecipe),
                              request.data.tags[i])
        /\ "ingredients" \in DOMAIN request.data =>
               \A i \in 1..Len(request.data.ingredients) :
                   Reconciled(before.ingredients, ingredients,
                              LinkedIngredients(DB, WrittenRecipe),
                              request.data.ingredients[i])

\* C8 (as claimed): a recipe create or update that fails leaves the database
\* as it was.
C8_FailedWriteChangesNothing ==
    (Answered({"recipe-create", "recipe-update"})
        /\ response.status \notin {HTTP_200_OK, HTTP_201_CREATED}) =>
        DB = before

\* The request's id-list parameters are lists of integers.
ValidIdLists ==
    \A k \in DOMAIN request.query_params :
        request.query_params[k] # <<>> /\ parameters_to_list(request.query_params[k]).ok

\* The recipes of the sender that the filters of the request select.
SelectedRecipes ==
    {r \in recipes :
        /\ r.user = request.user
        /\ "tags" \in DOMAIN request.query_params =>
               \E t \in IdsOf(request.query_params.tags) : <<r.id, t>> \in recipe_tags
        /\ "ingredients" \in DOMAIN request.query_params =>
               \E i \in IdsOf(request.query_params.ingredients) :
                   <<r.id, i>> \in recipe_ingredients}

\* C9: a recipe list with id lists T and I returns exactly the sender's
\* recipes linked to a tag of T (if given) and an ingredient of I (if
\* given), each once, in strictly descending id order.
C9_RecipeFilter ==
    (Answered({"recipe-list"}) /\ request.user \in Users /\ ValidIdLists) =>
        /\ response.status = HTTP_200_OK
        /\ Range(response.data) = {r.id : r \in SelectedRecipes}
        /\ \A i, j \in 1..Len(response.data) :
               i < j => response.data[i] > response.data[j]

\* A list with a filter of two tag ids returned two recipes, one of them
\* linked to both tags.
C9_Witness ==
    /\ Answered({"recipe-list"})
    /\ request.user \in Users
    /\ ValidIdLists
    /\ "tags" \in DOMAIN request.query_params
    /\ Cardinality(IdsOf(request.query_params.tags)) = 2
    /\ Len(response.data) = 2
    /\ \E i \in 1..Len(response.data) :
           \A t \in IdsOf(request.query_params.tags) :
               <<response.data[i], t>> \in recipe_tags

\* The rows of the sender that a tag or ingredient list selects.
SelectedAttrs ==
    LET assigned_only == "assigned_only" \in DOMAIN request.query_params
                         /\ request.query_params.assigned_only = <<"1">>
        links == IF request.op = "tag-list" THEN recipe_tags ELSE recipe_ingredients
    IN  {o \in TableOf(DB, request.op) :
            /\ o.user = request.user
            /\ assigned_only => \E l \in links : l[2] = o.id}

\* C10: a tag or ingredient list with assigned_only=1 returns exactly the
\* sender's rows linked to a recipe, each once, in ascending name order;
\* without assigned_only, or with 0, it returns all the sender's rows.
C10_AssignedOnly ==
    (Answered({"tag-list", "ingredient-list"}) /\ request.user \in Users
        /\ ("assigned_only" \in DOMAIN request.query_params =>
                request.query_params.assigned_only \in {<<"0">>, <<"1">>})) =>
        /\ response.status = HTTP_200_OK
        /\ Range(response.data) = {o.id : o \in SelectedAttrs}
        /\ Len(response.data) = Cardinality(SelectedAttrs)
        /\ \A i, j \in 1..Len(response.data) :
               i < j => NameOrder(Row(TableOf(DB, request.op), response.data[i]).name)
                        <= NameOrder(Row(TableOf(DB, request.op), response.data[j]).name)

\* A tag list with assigned_only=1 returned a tag linked to two recipes and
\* left out a tag of the sender linked to none.
C10_Witness ==
    /\ Answered({"tag-list"})
    /\ "assigned_only" \in DOMAIN request.query_params
    /\ request.query_params.assigned_only = <<"1">>
    /\ \E i \in 1..Len(response.data) :
           Cardinality({l \in recipe_tags : l[2] = response.data[i]}) = 2
    /\ \E t \in tags : t.user = request.user /\ t.id \notin Range(response.data)

\* The next id of the table that the route op serves.
SequenceOf(d, op) ==
    IF op \in RecipeOps THEN d.sequences.recipe
    ELSE IF op \in TagOps THEN d.sequences.tag
    ELSE d.sequences.ingredient

\* The links of database d without those of row id of the table of op.
LinksWithout(d, op, id) ==
    [recipe_tags |->
        {l \in d.recipe_tags :
            IF op \in RecipeOps THEN l[1] # id ELSE op \in TagOps => l[2] # id},
     recipe_ingredients |->
        {l \in d.recipe_ingredients :
            IF op \in RecipeOps THEN l[1] # id
            ELSE op \notin TagOps => l[2] # id}]

\* Every link joins a recipe and a tag or an ingredient that exist.
NoDanglingLink ==
    /\ \A l \in recipe_tags :
           (\E r \in recipes : r.id = l[1]) /\ (\E t \in tags : t.id = l[2])
    /\ \A l \in recipe_ingredients :
           /\ \E r \in recipes : r.id = l[1]
           /\ \E i \in ingredients : i.id = l[2]

\* C11: a delete by the owner answers 204 and removes the row it names and
\* the links of that row, nothing else; no link is left to a row that does
\* not exist; an update or a delete of an id that was deleted (an id below
\* the table's counter with no row) answers 404 and changes nothing.
C11_OwnerDelete ==
    /\ NoDanglingLink
    /\ (Answered(DestroyOps) /\ NamesRow(TRUE)) =>
           /\ response = [status |-> HTTP_204_NO_CONTENT, data |-> <<>>]
           /\ TableOf(DB, request.op) =
                  {o \in TableOf(before, request.op) : o.id # request.pk}
           /\ AllRows(DB) = {o \in AllRows(before) :
                                ~(o.id = request.pk
                                  /\ o \in TableOf(before, request.op))}
           /\ recipe_tags = LinksWithout(before, request.op, request.pk).recipe_tags
           /\ recipe_ingredients =
                  LinksWithout(before, request.op, request.pk).recipe_ingredients
           /\ sequences = before.sequences
    /\ (Answered(UpdateOps \cup DestroyOps) /\ request.user \in Users
           /\ request.pk < SequenceOf(before, request.op)
           /\ \A o \in TableOf(before, request.op) : o.id # request.pk) =>
           /\ response.status = HTTP_404_NOT_FOUND
           /\ DB = before

\* The owner deleted a tag that was linked to a recipe, and the recipe is
\* still there.
C11_Witness ==
    /\ Answered({"tag-destroy"})
    /\ NamesRow(TRUE)
    /\ response.status = HTTP_204_NO_CONTENT
    /\ \E l \in before.recipe_tags :
           l[2] = request.pk /\ \E r \in recipes : r.id = l[1]

\* C12 (as claimed): a GET by the owner on the detail route of an existing
\* recipe, tag or ingredient is answered with success and that row.
C12_RetrieveEveryResource ==
    (Answered(RetrieveOps) /\ NamesRow(TRUE)) =>
        response = [status |-> HTTP_200_OK, data |-> <<request.pk>>]

\* C12 (amended): a GET by the owner on the detail route of an existing
\* recipe is answered 200 with that recipe; on the detail route of an
\* existing tag or ingredient it is answered 405 with no row; in both cases
\* the database is unchanged.
C12_RetrieveRecipesOnly ==
    (Answered(RetrieveOps) /\ NamesRow(TRUE)) =>
        /\ DB = before
        /\ response = IF request.op = "recipe-retrieve"
                      THEN [status |-> HTTP_200_OK, data |-> <<request.pk>>]
                      ELSE [status |-> HTTP_405_METHOD_NOT_ALLOWED, data |-> <<>>]

\* The owner of a tag sent GET /recipe/tags/{id} and was refused.
C12_Witness ==
    /\ Answered({"tag-retrieve"})
    /\ NamesRow(TRUE)
    /\ response.status = HTTP_405_METHOD_NOT_ALLOWED

(***************************************************************************)
(* Properties of the user manager.  A state with call # NoCall is the      *)
(* state right after the call: call.before is the table it found and       *)
(* user_table the table it left.                                           *)
(***************************************************************************)
Called(ops) == call # NoCall /\ call.op \in ops

\* The rows the call inserted.
Inserted == user_table \ call.before

Whitespace == {" ", "\t"}
strip_whitespace(s) == SelectSeq(s, LAMBDA c : c \notin Whitespace)

\* The number of separators of an email, and its two parts when it has one.
AtCount(email) == Cardinality({i \in 1..Len(email) : email[i] = "@"})
AtIndex(email) == CHOOSE i \in 1..Len(email) : email[i] = "@"
LocalPart(email) == SubSeq(email, 1, AtIndex(email) - 1)
DomainPart(email) == SubSeq(email, AtIndex(email) + 1, Len(email))

\* C13 (as claimed): the email a call stores for local@domain is local
\* without its whitespace, in its own letter case, then '@', then domain
\* without its whitespace, in lower case.
C13_StoredEmailNormalized ==
    (Called({"create_user"}) /\ call.outcome = "ok" /\ AtCount(call.email) = 1) =>
        \A u \in Inserted :
            u.email = strip_whitespace(LocalPart(call.email)) \o <<"@">>
                      \o lower(strip_whitespace(DomainPart(call.email)))

\* The email is empty, has no local part, or has not exactly one '@'.
EmptyOrMalformed(email) ==
    \/ email = <<>>
    \/ AtCount(email) # 1
    \/ LocalPart(email) = <<>>

\* C14: create_user with an empty email, an email without local part or a
\* malformed email raises ValueError and leaves the users as they were.
C14_EmptyOrMalformedRejected ==
    (Called({"create_user"}) /\ EmptyOrMalformed(call.email)) =>
        /\ call.outcome = "ValueError"
        /\ user_table = call.before

\* create_user was called with an email of two '@' when a user was stored.
C14_Witness ==
    /\ Called({"create_user"})
    /\ AtCount(call.email) = 2
    /\ call.before # {}
    /\ call.outcome = "ValueError"

\* C15 (as claimed): create_user raises a validation error, and stores no
\* row, for an email whose local part is empty once normalized, a local part
\* of whitespace included; so no stored email has an empty local part.
C15_BlankLocalPartRejected ==
    /\ \A u \in user_table : LocalPart(u.email) # <<>>
    /\ (Called({"create_user"}) /\ AtCount(call.email) = 1
           /\ strip_whitespace(LocalPart(call.email)) = <<>>) =>
           /\ call.outcome = "ValueError"
           /\ user_table = call.before

\* C16: a successful create_superuser stores one user with is_staff and
\* is_superuser set, whatever the extra fields, and otherwise the user that
\* create_user stores for the same arguments; a call that create_user
\* rejects is rejected, and a rejected call stores nothing.
C16_SuperuserFlags ==
    Called({"create_superuser"}) =>
        LET as_user == create_user(call.before, call.email, call.password, call.kw)
        IN  /\ call.outcome = "ok" =>
                   /\ as_user.outcome = "ok"
                   /\ \A u \in Inserted : u.is_staff /\ u.is_superuser
                   /\ Inserted = {[u EXCEPT !.is_staff = TRUE, !.is_superuser = TRUE] :
                                     u \in as_user.table \ call.before}
                   /\ Cardinality(Inserted) = 1
            /\ as_user.outcome # "ok" => call.outcome # "ok"
            /\ call.outcome # "ok" => user_table = call.before
            /\ EmptyOrMalformed(call.email) => call.outcome # "ok"

\* create_superuser stored a user with an extra field, from an email that
\* normalization changes.
C16_Witness ==
    /\ Called({"create_superuser"})
    /\ call.outcome = "ok"
    /\ call.kw # NoData
    /\ \E u \in Inserted : u.email # call.email

\* The outcomes that are validation errors.
ValidationErrors == {"ValueError", "ValidationError"}

\* C17 (as claimed): no two users have the same stored email, and a call
\* whose email, once normalized, is the email of a stored user is rejected
\* as a validation error and leaves the users as they were.
C17_UniqueNormalizedEmail ==
    /\ \A u, v \in user_table : u.email = v.email => u = v
    /\ (Called({"create_user", "create_superuser"}) /\ ~EmptyOrMalformed(call.email)
           /\ \E u \in call.before :
                  u.email = strip_whitespace(LocalPart(call.email)) \o <<"@">>
                            \o lower(strip_whitespace(DomainPart(call.email)))) =>
           /\ call.outcome \in ValidationErrors
           /\ user_table = call.before

C19_LinkedRowsShareOwner ==
    \A r \in recipes :
        /\ \A t \in LinkedTags(DB, r.id) : t.user = r.user
        /\ \A i \in LinkedIngredients(DB, r.id) : i.user = r.user

\* A recipe write named a tag that only another user owned, and the recipe
\* is linked to a row of that name that the writer owns.
C19_Witness ==
    /\ Answered({"recipe-create", "recipe-update"})
    /\ response.status \in {HTTP_200_OK, HTTP_201_CREATED}
    /\ "tags" \in DOMAIN request.data
    /\ \E r \in recipes, n \in 1..Len(request.data.tags) :
          /\ r.user = request.user
          /\ \E t \in before.tags :
                t.user # request.user /\ t.name = request.data.tags[n].name
          /\ \A t \in before.tags :
                t.name = request.data.tags[n].name => t.user # request.user
          /\ \E t \in LinkedTags(DB, r.id) : t.name = request.data.tags[n].name
\* C20 (as claimed): a recipe create or update with a valid payload succeeds
\* and links the recipe to a row for every tag descriptor, also when the
\* sender owns two or more tags of the name of a descriptor: the recipe is
\* then linked to one of these rows and no tag of that name is inserted.
C20_DuplicateTagsResolved ==
    (ValidRecipeWrite({"recipe-create", "recipe-update"})
        /\ "tags" \in DOMAIN request.data) =>
        /\ response.status \in {HTTP_200_OK, HTTP_201_CREATED}
        /\ \A i \in 1..Len(request.data.tags) :
              LET old == Matching(before.tags, request.user, request.data.tags[i])
                  linked == Matching(LinkedTags(DB, WrittenRecipe), request.user,
                                     request.data.tags[i])
              IN  /\ linked # {}
                  /\ Cardinality(old) >= 2 =>
                         /\ \E t \in old : t \in linked
                         /\ Matching(tags, request.user, request.data.tags[i]) = old

\* A string that is no decimal integer.
NotInteger(s) == s = <<>> \/ \E i \in 1..Len(s) : ~IsDigit(s[i])

\* The list request carries a malformed parameter: an id list with an
\* element that is no integer, or an assigned_only that is no integer.
MalformedListParams ==
    LET bad_list(k) ==
            /\ k \in DOMAIN request.query_params
            /\ request.query_params[k] # <<>>
            /\ \E i \in 1..Len(split(request.query_params[k], ",")) :
                   NotInteger(split(request.query_params[k], ",")[i])
    IN  IF request.op = "recipe-list" THEN bad_list("tags") \/ bad_list("ingredients")
        ELSE /\ "assigned_only" \in DOMAIN request.query_params
             /\ NotInteger(request.query_params.assigned_only)

\* C23 (as claimed): a list request of an authenticated user with a
\* malformed 'tags', 'ingredients' or 'assigned_only' parameter is answered
\* with a validation error (400), and changes nothing.
C23_MalformedParamsRejected ==
    (Answered(ListOps) /\ request.user \in Users /\ MalformedListParams) =>
        /\ response.status = HTTP_400_BAD_REQUEST
        /\ DB = before

\* A descriptor that the payload names more than once resolved to at most
\* one new row and at most one link.
RepeatedDescriptorOnce ==
    (ValidRecipeWrite({"recipe-create", "recipe-update"})
        /\ "tags" \in DOMAIN request.data) =>
        \A i, j \in 1..Len(request.data.tags) :
            (i < j /\ request.data.tags[i] = request.data.tags[j]) =>
                /\ Cardinality(Matching(tags, request.user, request.data.tags[i])
                               \ before.tags) <= 1
                /\ Cardinality(Matching(LinkedTags(DB, WrittenRecipe), request.user,
                                        request.data.tags[i])) <= 1

\* The step answers again the recipe update with a 'tags' or 'ingredients'
\* field that the owner has just been answered.
UpdateSentAgain ==
    /\ request # NoRequest
    /\ request' = request
    /\ request.op = "recipe-update"
    /\ request.user \in Users
    /\ \E r \in recipes : r.id = request.pk /\ r.user = request.user
    /\ RecipeDetailSerializer_is_valid(request.data, request.method = "PATCH")
    /\ {"tags", "ingredients"} \cap DOMAIN request.data # {}

\* C22: a payload that names a tag descriptor more than once creates at
\* most one row and one link for it, and the same recipe update with 'tags'
\* or 'ingredients' sent twice in a row leaves the database after the second
\* request as it was after the first.
C22_AttachIdempotent ==
    /\ []RepeatedDescriptorOnce
    /\ [][UpdateSentAgain => DB' = DB]_vars

\* An update that names a tag twice was answered 200 with the recipe linked
\* to one tag of that name, and left the database as it was when it arrived.
C22_Witness ==
    /\ Answered({"recipe-update"})
    /\ NamesRow(TRUE)
    /\ response.status = HTTP_200_OK
    /\ "tags" \in DOMAIN request.data
    /\ Len(request.data.tags) = 2
    /\ request.data.tags[1] = request.data.tags[2]
    /\ Cardinality(LinkedTags(DB, request.pk)) = 1
    /\ DB = before

\* The rows of a table of database d that the request unlinked from their
\* last recipe.
Detached(d_before, d, kind) ==
    {o \in Table(d_before, kind) :
        /\ <<request.pk, o.id>> \in Links(d_before, kind)
        /\ \A l \in Links(d, kind) : l[2] # o.id}

\* The ids a tag or ingredient list with query parameters params returns to
\* the sender in the current state.
Listed(kind, params) ==
    {row.id : row \in BaseRecipeAttrViewSet_get_queryset(
                          Table(DB, kind), Links(DB, kind), request.user, params).rows}

\* C24: a recipe create or update deletes and modifies no tag and no
\* ingredient; a row that an update unlinks from its last recipe is still
\* there with its owner, is in the owner's list and is not in the owner's
\* list with assigned_only=1.
C24_RecipeWritesKeepRows ==
    (Answered({"recipe-create", "recipe-update"}) /\ request.user \in Users) =>
        /\ before.tags \subseteq tags
        /\ before.ingredients \subseteq ingredients
        /\ request.op = "recipe-update" =>
               \A kind \in {"tag", "ingredient"} :
                   \A o \in Detached(before, DB, kind) :
                       /\ o \in Table(DB, kind)
                       /\ o.user = request.user
                       /\ o.id \in Listed(kind, NoData)
                       /\ o.id \notin Listed(kind, [assigned_only |-> <<"1">>])

\* An update by the owner unlinked a tag from its last recipe while the
\* recipe got another tag.
C24_Witness ==
    /\ Answered({"recipe-update"})
    /\ NamesRow(TRUE)
    /\ response.status = HTTP_200_OK
    /\ Detached(before, DB, "tag") # {}
    /\ LinkedTags(DB, request.pk) # {}

\* The rows of the worker's user that match the descriptor of the statement
\* the worker is at, in the tables tag_table and ingredient_table.
MatchingRows(w, tag_table, ingredient_table) ==
    objects_filter(IF Statement_of(w).kind = "tag" THEN tag_table ELSE ingredient_table,
                   workers[w].req.user, Statement_of(w).descriptor)

\* Worker w, whose get found no row, runs the create of its get_or_create.
CreateStep(w) ==
    /\ Running(w)
    /\ Statement_of(w).op = "create"
    /\ workers'[w] # workers[w]

\* C21: nothing stops the insert of a worker whose get observed no matching
\* row: its create inserts one more row of its user and descriptor, whether
\* or not another worker has inserted such a row in the meantime, so that
\* two requests that both observed none leave two identical rows.
C21_GetOrCreateRace ==
    [][\A w \in Workers :
          CreateStep(w) =>
              \E o \in MatchingRows(w, tags', ingredients') :
                  /\ o \notin MatchingRows(w, tags, ingredients)
                  /\ MatchingRows(w, tags', ingredients')
                         = MatchingRows(w, tags, ingredients) \cup {o}
                  /\ workers'[w].todo[1].op = "add"
                  /\ workers'[w].todo[1].id = o.id]_vars

\* Both workers observed no tag of the name their request names and both
\* inserted one: there are two tags with the same owner and name, and each
\* worker is about to link its own.
C21_Witness ==
    /\ \A w \in Workers : Running(w) /\ Statement_of(w).op = "add"
                          /\ Statement_of(w).kind = "tag"
    /\ workers["w1"].todo[1].descriptor = workers["w2"].todo[1].descriptor
    /\ workers["w1"].todo[1].id # workers["w2"].todo[1].id
    /\ \E t1, t2 \in tags :
          /\ t1.id = workers["w1"].todo[1].id
          /\ t2.id = workers["w2"].todo[1].id
          /\ t1.user = t2.user
          /\ t1.name = t2.name
    /\ {workers["w1"].req.op, workers["w2"].req.op} = {"recipe-create", "recipe-update"}

\* Both workers have answered 200 to an update of the same recipe.
BothUpdated ==
    /\ \A w \in Workers :
          /\ workers[w].pc = "done"
          /\ workers[w].status = HTTP_200_OK
          /\ workers[w].req.op = "recipe-update"
    /\ workers["w1"].req.pk = workers["w2"].req.pk

\* The names of the tags a payload names.
NamesOf(payload) == {payload[i].name : i \in 1..Len(payload)}

\* C25 (as claimed): when two updates of one recipe by its owner have both
\* been answered, the tags of the recipe are those of the payload of one of
\* them, and a scalar field that only one of them wrote has the value that
\* request wrote.
C25_ConcurrentUpdatesSerial ==
    BothUpdated =>
        LET d1 == workers["w1"].req.data
            d2 == workers["w2"].req.data
            pk == workers["w1"].req.pk
            linked == {t.name : t \in LinkedTags(DB, pk)}
        IN  /\ ("tags" \in DOMAIN d1 /\ "tags" \in DOMAIN d2) =>
                   linked \in {NamesOf(d1.tags), NamesOf(d2.tags)}
            /\ \A w \in Workers :
                   \A k \in {"title", "image"} \cap DOMAIN workers[w].req.data :
                       (\A v \in Workers \ {w} : k \notin DOMAIN workers[v].req.data) =>
                           Row(recipes, pk)[k] = attributes(workers[w].req.data)[k]

====
